---- MODULE Spec2Model ----
(***************************************************************************)
(* Model of broker/fyers/streaming/fyers_mapping.py: the class-level       *)
(* mapping tables of FyersExchangeMapper and FyersCapabilityRegistry and   *)
(* the five lookup methods that read them.  The tables are Python class    *)
(* attributes (mutable objects), so they are state; every lookup is one    *)
(* action performed by some caller, and the outcome of the most recent     *)
(* call is kept in `last`.                                                 *)
(***************************************************************************)
EXTENDS Integers, Sequences, FiniteSets, TLC

VARIABLES EXCHANGE_TYPES, SEGMENT_CODES, exchanges, subscription_modes,
          depth_support, last, previous

vars == <<EXCHANGE_TYPES, SEGMENT_CODES, exchanges, subscription_modes,
          depth_support, last, previous>>

tables == <<EXCHANGE_TYPES, SEGMENT_CODES, exchanges, subscription_modes,
            depth_support>>

(* ------------------------------ bounds --------------------------------- *)

\* requested depths / depth levels range over -MaxNegDepth .. MaxDepth
MaxNegDepth == 2

MaxDepth == 21

\* number of concurrent callers of the lookups
NumCallers == 2

Depths == (0 - MaxNegDepth)..MaxDepth

Callers == 1..NumCallers

\* exchange strings that are keys of no table
UnknownExchanges == {"XYZ", "nse", ""}

KnownExchanges == {"NSE", "BSE", "NFO", "BFO", "MCX", "CDS"}

ExchangeInputs == KnownExchanges \cup UnknownExchanges

(* ------------------------- Python primitives --------------------------- *)

\* a call that returns v
Return(v) == [outcome |-> "return", value |-> v]

\* a call that ends by raising the exception exc
Raise(exc) == [outcome |-> exc]

\* dict.get(key, default)
dict_get(d, key, default) == IF key \in DOMAIN d THEN d[key] ELSE default

\* `x in lst` for a list: a scan from the front
RECURSIVE list_contains(_, _)
list_contains(lst, x) ==
    IF lst = <<>> THEN FALSE
    ELSE IF Head(lst) = x THEN TRUE
    ELSE list_contains(Tail(lst), x)

\* the scan of max() over a non-empty list
RECURSIVE max_scan(_)
max_scan(lst) ==
    IF Len(lst) = 1 THEN lst[1]
    ELSE LET m == max_scan(Tail(lst))
         IN IF lst[1] >= m THEN lst[1] ELSE m

\* the scan of min() over a non-empty list
RECURSIVE min_scan(_)
min_scan(lst) ==
    IF Len(lst) = 1 THEN lst[1]
    ELSE LET m == min_scan(Tail(lst))
         IN IF lst[1] <= m THEN lst[1] ELSE m

\* builtin max(list): ValueError on an empty list
py_max(lst) == IF lst = <<>> THEN Raise("ValueError") ELSE Return(max_scan(lst))

(* ------------------------- the class attributes ------------------------ *)

EXCHANGE_TYPES_literal ==
    [e \in KnownExchanges |->
        CASE e = "NSE" -> "NSE"
          [] e = "BSE" -> "BSE"
          [] e = "NFO" -> "NSE"
          [] e = "BFO" -> "BSE"
          [] e = "MCX" -> "MCX"
          [] e = "CDS" -> "NSE"]

SEGMENT_CODES_swapped ==
    [e \in KnownExchanges |->
        CASE e = "NSE" -> 10
          [] e = "BSE" -> 10
          [] e = "NFO" -> 11
          [] e = "BFO" -> 11
          [] e = "MCX" -> 12
          [] e = "CDS" -> 20]

SEGMENT_CODES_literal ==
    [e \in KnownExchanges |->
        CASE e = "NSE" -> 10
          [] e = "BSE" -> 10
          [] e = "NFO" -> 11
          [] e = "BFO" -> 11
          [] e = "MCX" -> 20
          [] e = "CDS" -> 12]

exchanges_literal == <<"NSE", "BSE", "NFO", "BFO", "MCX", "CDS">>

subscription_modes_literal == <<1, 2, 3>>

depth_support_without_CDS ==
    [e \in KnownExchanges \ {"CDS"} |-> <<5, 20>>]

depth_support_literal ==
    [e \in KnownExchanges |-> <<5, 20>>]

(* ------------------------- FyersExchangeMapper ------------------------- *)

get_exchange_type_echo(exchange) ==
    Return(dict_get(EXCHANGE_TYPES, exchange, exchange))

get_exchange_type(exchange) ==
    Return(dict_get(EXCHANGE_TYPES, exchange, "NSE"))

get_segment_code(exchange) ==
    Return(dict_get(SEGMENT_CODES, exchange, 10))

(* ----------------------- FyersCapabilityRegistry ----------------------- *)

get_supported_depth_levels(exchange) ==
    Return(dict_get(depth_support, exchange, <<5>>))

is_depth_level_supported_first(exchange, depth_level) ==
    LET supported_depths == get_supported_depth_levels(exchange).value
    IN  Return(supported_depths # <<>> /\ Head(supported_depths) = depth_level)

is_depth_level_supported(exchange, depth_level) ==
    LET supported_depths == get_supported_depth_levels(exchange).value
    IN  Return(list_contains(supported_depths, depth_level))

get_fallback_depth_level_strict(exchange, requested_depth) ==
    LET supported_depths == get_supported_depth_levels(exchange).value
        fallbacks == SelectSeq(supported_depths, LAMBDA d : d < requested_depth)
    IN  IF fallbacks # <<>> THEN py_max(fallbacks) ELSE Return(5)

get_fallback_depth_level_min(exchange, requested_depth) ==
    LET supported_depths == get_supported_depth_levels(exchange).value
        fallbacks == SelectSeq(supported_depths, LAMBDA d : d <= requested_depth)
    IN  IF fallbacks # <<>> THEN Return(min_scan(fallbacks)) ELSE Return(5)

get_fallback_depth_level_unguarded(exchange, requested_depth) ==
    LET supported_depths == get_supported_depth_levels(exchange).value
        fallbacks == SelectSeq(supported_depths, LAMBDA d : d <= requested_depth)
    IN  py_max(fallbacks)

get_fallback_depth_level_echo(exchange, requested_depth) ==
    LET supported_depths == get_supported_depth_levels(exchange).value
        fallbacks == SelectSeq(supported_depths, LAMBDA d : d <= requested_depth)
    IN  IF fallbacks # <<>> THEN py_max(fallbacks) ELSE Return(requested_depth)

get_fallback_depth_level(exchange, requested_depth) ==
    LET supported_depths == get_supported_depth_levels(exchange).value
        fallbacks == SelectSeq(supported_depths, LAMBDA d : d <= requested_depth)
    IN  IF fallbacks # <<>> THEN py_max(fallbacks) ELSE Return(5)

(* ------------------------------ the calls ------------------------------ *)

Call(c, op, exchange, depth, result) ==
    [caller |-> c, op |-> op, exchange |-> exchange, depth |-> depth,
     result |-> result]

SameInput(a, b) ==
    a.op = b.op /\ a.exchange = b.exchange /\ a.depth = b.depth

NoRepeat == [repeated |-> FALSE]

\* the call `call` completes: it becomes the most recent one
Complete(call) ==
    /\ last' = call
    /\ previous' = IF SameInput(last, call)
                   THEN [repeated |-> TRUE, caller |-> last.caller,
                         result |-> last.result]
                   ELSE NoRepeat

Init ==
    /\ EXCHANGE_TYPES = EXCHANGE_TYPES_literal
    /\ SEGMENT_CODES = SEGMENT_CODES_literal
    /\ exchanges = exchanges_literal
    /\ subscription_modes = subscription_modes_literal
    /\ depth_support = depth_support_literal
    /\ last = Call(0, "none", "", 0, Return(0))
    /\ previous = NoRepeat

CallGetExchangeType(c) ==
    \E exchange \in ExchangeInputs :
        /\ Complete(Call(c, "get_exchange_type", exchange, 0,
                         get_exchange_type(exchange)))
        /\ UNCHANGED tables

CallGetSegmentCode(c) ==
    \E exchange \in ExchangeInputs :
        /\ Complete(Call(c, "get_segment_code", exchange, 0,
                         get_segment_code(exchange)))
        /\ UNCHANGED tables

\* the lookup written with dict.setdefault: it stores the default it returns
CallGetSupportedDepthLevels_setdefault(c) ==
    \E exchange \in ExchangeInputs :
        /\ Complete(Call(c, "get_supported_depth_levels", exchange, 0,
                         get_supported_depth_levels(exchange)))
        /\ depth_support' =
               IF exchange \in DOMAIN depth_support THEN depth_support
               ELSE depth_support @@ (exchange :> <<5>>)
        /\ UNCHANGED <<EXCHANGE_TYPES, SEGMENT_CODES, exchanges,
                       subscription_modes>>

CallGetSupportedDepthLevels(c) ==
    \E exchange \in ExchangeInputs :
        /\ Complete(Call(c, "get_supported_depth_levels", exchange, 0,
                         get_supported_depth_levels(exchange)))
        /\ UNCHANGED tables

CallIsDepthLevelSupported(c) ==
    \E exchange \in ExchangeInputs, depth_level \in Depths :
        /\ Complete(Call(c, "is_depth_level_supported", exchange, depth_level,
                         is_depth_level_supported(exchange, depth_level)))
        /\ UNCHANGED tables

CallGetFallbackDepthLevel(c) ==
    \E exchange \in ExchangeInputs, requested_depth \in Depths :
        /\ Complete(Call(c, "get_fallback_depth_level", exchange,
                         requested_depth,
                         get_fallback_depth_level(exchange, requested_depth)))
        /\ UNCHANGED tables

Next ==
    \E c \in Callers :
        \/ CallGetExchangeType(c)
        \/ CallGetSegmentCode(c)
        \/ CallGetSupportedDepthLevels(c)
        \/ CallIsDepthLevelSupported(c)
        \/ CallGetFallbackDepthLevel(c)

Spec == Init /\ [][Next]_vars

(* ------------------------------ properties ----------------------------- *)

\* the elements of a list
Elems(lst) == {lst[i] : i \in DOMAIN lst}

\* the exchange is in the registry's `exchanges` list
Listed(exchange) == exchange \in Elems(exchanges)

Returned == last.result.outcome = "return"

C2_FallbackNotAboveRequest ==
    last.op = "get_fallback_depth_level" =>
        Returned /\ last.result.value <= last.depth

C4_ExchangeTypeTable ==
    last.op = "get_exchange_type" =>
        /\ Returned
        /\ last.result.value \in {"NSE", "BSE", "MCX"}
        /\ Listed(last.exchange) =>
              last.result.value =
                 CASE last.exchange \in {"NSE", "NFO", "CDS"} -> "NSE"
                   [] last.exchange \in {"BSE", "BFO"} -> "BSE"
                   [] last.exchange = "MCX" -> "MCX"
                   [] OTHER -> "unlisted"

C4_Witness ==
    /\ last.op = "get_exchange_type"
    /\ last.exchange = "CDS"
    /\ Listed(last.exchange)
    /\ last.result = Return("NSE")

\* C5: for every listed exchange get_segment_code returns the table value
\* (NSE->10, BSE->10, NFO->11, BFO->11, MCX->20, CDS->12), and for every
\* input the result is one of 10, 11, 12, 20.
C5_SegmentCodeTable ==
    last.op = "get_segment_code" =>
        /\ Returned
        /\ last.result.value \in {10, 11, 12, 20}
        /\ Listed(last.exchange) =>
              last.result.value =
                 CASE last.exchange \in {"NSE", "BSE"} -> 10
                   [] last.exchange \in {"NFO", "BFO"} -> 11
                   [] last.exchange = "MCX" -> 20
                   [] last.exchange = "CDS" -> 12
                   [] OTHER -> 0

C5_Witness ==
    /\ last.op = "get_segment_code"
    /\ last.exchange = "MCX"
    /\ Listed(last.exchange)
    /\ last.result = Return(20)

\* C6: get_supported_depth_levels returns [5, 20] for every listed exchange
\* and [5] for every other one, so no listed exchange gets the default.
C6_DepthLevelsTable ==
    last.op = "get_supported_depth_levels" =>
        /\ Returned
        /\ Elems(exchanges) = {"NSE", "BSE", "NFO", "BFO", "MCX", "CDS"}
        /\ last.result.value =
              IF Listed(last.exchange) THEN <<5, 20>> ELSE <<5>>

C6_Witness ==
    /\ last.op = "get_supported_depth_levels"
    /\ last.exchange = "CDS"
    /\ Listed(last.exchange)
    /\ last.result = Return(<<5, 20>>)

\* C7: is_depth_level_supported is true exactly when the depth level is an
\* element of get_supported_depth_levels(exchange); on a known exchange
\* that is exactly for 5 and 20.
C7_SupportedIffMember ==
    last.op = "is_depth_level_supported" =>
        /\ Returned
        /\ last.result.value =
              (last.depth \in
                  Elems(get_supported_depth_levels(last.exchange).value))
        /\ last.exchange \in KnownExchanges =>
              last.result.value = (last.depth \in {5, 20})

C7_Witness ==
    /\ last.op = "is_depth_level_supported"
    /\ last.exchange = "MCX"
    /\ last.depth = 20
    /\ last.result = Return(TRUE)

\* C8: whatever lookups the callers have made, in whatever order, the five
\* tables hold the values they were created with, and a call that repeats
\* the input of the call before it gets the same outcome.
C8_LookupsLeaveTablesAndRepeat ==
    /\ EXCHANGE_TYPES = EXCHANGE_TYPES_literal
    /\ SEGMENT_CODES = SEGMENT_CODES_literal
    /\ depth_support = depth_support_literal
    /\ exchanges = exchanges_literal
    /\ subscription_modes = subscription_modes_literal
    /\ previous.repeated => previous.result = last.result

C8_Witness ==
    /\ previous.repeated
    /\ previous.caller # last.caller
    /\ last.op = "get_supported_depth_levels"
    /\ last.exchange = "XYZ"
    /\ last.result = Return(<<5>>)
    /\ depth_support = depth_support_literal

\* C9: the level get_fallback_depth_level returns is one that
\* is_depth_level_supported accepts for the same exchange, also when it is
\* the floor 5 returned because no supported level is <= the request.
C9_FallbackIsSupported ==
    last.op = "get_fallback_depth_level" =>
        /\ Returned
        /\ is_depth_level_supported(last.exchange, last.result.value)
              = Return(TRUE)

C9_Witness ==
    /\ last.op = "get_fallback_depth_level"
    /\ last.depth < 5
    /\ last.result = Return(5)
    /\ is_depth_level_supported(last.exchange, 5) = Return(TRUE)

\* C10: get_fallback_depth_level returns the requested depth itself exactly
\* when is_depth_level_supported accepts that depth, and applying the
\* fallback to its own result gives that result again.
C10_FallbackFixesSupported ==
    last.op = "get_fallback_depth_level" =>
        /\ Returned
        /\ (last.result.value = last.depth) =
              is_depth_level_supported(last.exchange, last.depth).value
        /\ get_fallback_depth_level(last.exchange, last.result.value)
              = last.result

C10_Witness ==
    /\ last.op = "get_fallback_depth_level"
    /\ last.exchange = "NSE"
    /\ last.depth = 20
    /\ last.result = Return(20)
    /\ is_depth_level_supported("NSE", 20) = Return(TRUE)

====
